---- MODULE Spec2Model ----
(***************************************************************************)
(* Model of the flight planner of detectivedrone                           *)
(* (flight_optimization.py: create_optimized_trajectory,                   *)
(* calculate_orientation, optimize_waypoint_order_2opt,                    *)
(* generate_complete_path) and of the plane fit of post_est_3d.py          *)
(* (fit_plane).                                                            *)
(*                                                                         *)
(* Numbers.  The code computes in IEEE doubles.  The inputs are drawn from *)
(* integer points whose pairwise distances are integers, so that every     *)
(* norm the code takes is an exact integer; times and battery levels are   *)
(* kept as exact multiples of 1/Scale, and a division by a zero velocity   *)
(* gives the doubles' inf or nan.  Indices are 0-based as in the code;     *)
(* sequences are 1-based, so element i of a Python list l is l[i + 1].     *)
(***************************************************************************)
EXTENDS Integers, Sequences, FiniteSets, TLC

\* Largest number of viewpoints (entries of barcode_positions) of a run.
MaxN == 4

\* Largest number of points handed to fit_plane.
MaxPlanePoints == 3

\* Largest number of viewpoints of a run whose viewpoints lie on their
\* barcodes.
MaxOnBarcode == 2

\* Positions the viewpoints are drawn from: the corners and the centre of a
\* 8 x 6 rectangle, points of the x axis, and a point above the origin.
Points ==
    { <<0, 0, 0>>, <<8, 0, 0>>, <<0, 6, 0>>, <<8, 6, 0>>, <<4, 3, 0>>,
      <<2, 0, 0>>, <<4, 0, 0>>, <<0, 0, 4>> }

\* start_position=None of create_optimized_trajectory.
NoStart == <<>>

\* The start positions given by the caller.
StartPositions == { NoStart, <<0, 0, 0>>, <<4, 3, 0>> }

\* barcode_center - drone_waypoint of an entry: the barcode lies at this
\* offset from the viewpoint that observes it.
ViewOffsets == { <<0, 0, -2>>, <<0, 0, 0>> }

\* (max_velocity, battery_capacity) pairs given by the caller.
Configs == { <<2, 100>>, <<1, 1>>, <<0, 100>>, <<-1, 100>>, <<2, 0>> }

----------------------------------------------------------------------------
\* Vectors and norms.

Abs(x) == IF x < 0 THEN -x ELSE x

Max2(a, b) == IF a >= b THEN a ELSE b

VSub(a, b) == <<a[1] - b[1], a[2] - b[2], a[3] - b[3]>>

VAdd(a, b) == <<a[1] + b[1], a[2] + b[2], a[3] + b[3]>>

VScale(a, k) == <<a[1] * k, a[2] * k, a[3] * k>>

Dot(a, b) == a[1] * b[1] + a[2] * b[2] + a[3] * b[3]

ISqrt(n) == CHOOSE r \in 0..n : r * r <= n /\ (r + 1) * (r + 1) > n

\* np.linalg.norm of an integer vector whose length is an integer.
Norm(v) == ISqrt(Dot(v, v))

\* The norm of b - a is an integer, so Norm is exact on it.
ExactDist(a, b) == Norm(VSub(b, a)) * Norm(VSub(b, a)) = Dot(VSub(b, a), VSub(b, a))

RECURSIVE Gcd(_, _)
Gcd(a, b) == IF b = 0 THEN a ELSE Gcd(b, a % b)

Lcm(a, b) == (a * b) \div Gcd(a, b)

RECURSIVE LcmUpTo(_)
LcmUpTo(n) == IF n <= 1 THEN 1 ELSE Lcm(n, LcmUpTo(n - 1))

\* The largest leg length between two positions of a run.
MaxLeg ==
    LET all == Points \cup (StartPositions \ {NoStart}) \cup {<<0, 0, 2>>}
    IN  CHOOSE d \in 0..1000 :
          /\ \E a \in all, b \in all : ExactDist(a, b) /\ Norm(VSub(b, a)) = d
          /\ \A a \in all, b \in all : ExactDist(a, b) => Norm(VSub(b, a)) <= d

\* Times (seconds) and battery levels (percent) are multiples of 1/Scale:
\* a leg is cut in at most MaxLeg \div 2 equal segments, a segment's time is
\* its length over the velocity, its drain a tenth of its length, and the
\* hover drain is 3 * 0.05.
Scale ==
    LET vels == { Abs(c[1]) : c \in Configs } \ {0}
        RECURSIVE LcmOf(_)
        LcmOf(S) == IF S = {} THEN 1
                    ELSE LET x == CHOOSE x \in S : TRUE IN Lcm(x, LcmOf(S \ {x}))
    IN  20 * LcmOf(vels) * LcmUpTo(MaxLeg \div 2)

\* A double that may be infinite or not a number: <<kind, value * Scale>>.
Fin(x) == <<"fin", x>>
Inf == <<"inf", 0>>
NaN == <<"nan", 0>>

IsFin(t) == t[1] = "fin"

\* x / v for a finite x >= 0 (numpy's float64 division: x / 0 is inf, 0 / 0
\* is nan, with a RuntimeWarning and no exception).
FDiv(x, v) ==
    IF v = 0 THEN (IF x = 0 THEN NaN ELSE Inf)
    ELSE IF v > 0 THEN Fin(x \div v) ELSE Fin(-(x \div (-v)))

\* t + x for a double t and a finite double x.
FAdd(t, u) ==
    IF t[1] = "nan" \/ u[1] = "nan" THEN NaN
    ELSE IF t[1] = "inf" \/ u[1] = "inf" THEN Inf
    ELSE Fin(t[2] + u[2])

----------------------------------------------------------------------------
\* State.

VARIABLES
    pc,                 \* where the run of create_optimized_trajectory stands
    barcode_positions,  \* argument: the entries, in the dictionary's order
    start_position,     \* argument, then the start actually used
    max_velocity,       \* argument
    battery_capacity,   \* argument
    target_waypoints,   \* create_optimized_trajectory: the list built from the entries
    current_pos,        \* the optimizer's, then the path generator's, current position
    unvisited,          \* optimizer: indices not yet in the tour, in list order
    tour,               \* optimizer: the tour, a list of indices
    nn_tour,            \* the tour as the construction loop left it (history)
    ordered_waypoints,  \* [target_waypoints[i] for i in optimized_order]
    leg,                \* path generator: how many of ordered_waypoints are done
    complete_path,      \* path generator: the waypoints emitted so far
    current_time,       \* path generator: elapsed seconds, a double
    battery_remaining,  \* path generator: percent * Scale
    final_trajectory,   \* what create_optimized_trajectory returned
    reported,           \* conditions reported to the caller besides the result
    points,             \* fit_plane: its argument
    plane_pc,           \* fit_plane: "idle", "called" or "returned"
    plane               \* fit_plane: the pair it returned

vars ==
    <<pc, barcode_positions, start_position, max_velocity, battery_capacity,
      target_waypoints, current_pos, unvisited, tour, nn_tour, ordered_waypoints,
      leg, complete_path, current_time, battery_remaining, final_trajectory,
      reported, points, plane_pc, plane>>

planner_vars ==
    <<pc, barcode_positions, start_position, max_velocity, battery_capacity,
      target_waypoints, current_pos, unvisited, tour, nn_tour, ordered_waypoints,
      leg, complete_path, current_time, battery_remaining, final_trajectory,
      reported>>

plane_vars == <<points, plane_pc, plane>>

\* The value of a variable that holds nothing yet.
None == <<>>

\* np.array([0, 0, 2.0]): the start used when the caller gives none.
DefaultStart == <<0, 0, 2>>

\* Element i (0-based) of a Python list.
At(l, i) == l[i + 1]

\* list(range(n))
Range(n) == [i \in 1..n |-> i - 1]

----------------------------------------------------------------------------
\* calculate_orientation.

\* The direction of v as the integer vector of least length: two vectors have
\* the same yaw atan2(y, x) and pitch atan2(-z, sqrt(x^2 + y^2)) exactly when
\* they have the same direction.
Direction(v) ==
    LET g == Gcd(Gcd(Abs(v[1]), Abs(v[2])), Abs(v[3]))
    IN  <<v[1] \div g, v[2] \div g, v[3] \div g>>

\* [roll, pitch, yaw] of a direction vector.  The angles are kept as the
\* direction that has them; [0, 0, 0], returned for the zero vector, is the
\* yaw and pitch of the direction (1, 0, 0).
calculate_orientation(direction_vector) ==
    IF Norm(direction_vector) > 0
    THEN [roll |-> 0, facing |-> Direction(direction_vector)]
    ELSE [roll |-> 0, facing |-> <<1, 0, 0>>]

\* The literal [0, 0, 0].
ZeroOrientation == [roll |-> 0, facing |-> <<1, 0, 0>>]

----------------------------------------------------------------------------
\* Inputs.

\* The n entries with viewpoints f[1..n], each barcode at offset off.
Entries(f, n, off) ==
    [i \in 1..n |->
        [palette_id |-> i,
         barcode_center |-> VAdd(f[i], off),
         drone_waypoint |-> f[i]]]

\* Every leg the run can fly has an integer length.
ExactInputs(start, f, n) ==
    LET s == IF start = NoStart THEN DefaultStart ELSE start
    IN  /\ \A i \in 1..n : ExactDist(s, f[i])
        /\ \A i \in 1..n : \A j \in 1..n : ExactDist(f[i], f[j])

PlannerIdle ==
    /\ pc = "idle"
    /\ barcode_positions = None
    /\ start_position = None
    /\ max_velocity = 0
    /\ battery_capacity = 0
    /\ target_waypoints = None
    /\ current_pos = None
    /\ unvisited = None
    /\ tour = None
    /\ nn_tour = None
    /\ ordered_waypoints = None
    /\ leg = 0
    /\ complete_path = None
    /\ current_time = Fin(0)
    /\ battery_remaining = 0
    /\ final_trajectory = None
    /\ reported = {}

PlaneIdle ==
    /\ points = None
    /\ plane_pc = "idle"
    /\ plane = None

\* A call create_optimized_trajectory(barcode_positions, start_position,
\* max_velocity, battery_capacity).
Init ==
    /\ pc = "create"
    /\ \E s \in StartPositions : \E n \in 0..MaxN : \E f \in [1..n -> Points] :
       \E off \in ViewOffsets :
          /\ ExactInputs(s, f, n)
          /\ (off = <<0, 0, 0>> => n <= MaxOnBarcode)
          /\ start_position = s
          /\ barcode_positions = Entries(f, n, off)
    /\ \E c \in Configs :
          /\ max_velocity = c[1]
          /\ battery_capacity = c[2]
    /\ target_waypoints = None
    /\ current_pos = None
    /\ unvisited = None
    /\ tour = None
    /\ nn_tour = None
    /\ ordered_waypoints = None
    /\ leg = 0
    /\ complete_path = None
    /\ current_time = Fin(0)
    /\ battery_remaining = 0
    /\ final_trajectory = None
    /\ reported = {}
    /\ PlaneIdle

----------------------------------------------------------------------------
\* create_optimized_trajectory, lines 20-39.

\* A target that looks from the barcode to the viewpoint.
TargetWaypoint_FacingAway(data) ==
    [position |-> data.drone_waypoint,
     orientation |-> calculate_orientation(VSub(data.drone_waypoint, data.barcode_center)),
     palette_id |-> data.palette_id,
     barcode_position |-> data.barcode_center]

TargetWaypoint(data) ==
    [position |-> data.drone_waypoint,
     orientation |-> calculate_orientation(VSub(data.barcode_center, data.drone_waypoint)),
     palette_id |-> data.palette_id,
     barcode_position |-> data.barcode_center]

CreateTargets ==
    /\ pc = "create"
    /\ target_waypoints' =
          [i \in 1..Len(barcode_positions) |-> TargetWaypoint(barcode_positions[i])]
    /\ start_position' = IF start_position = NoStart THEN DefaultStart ELSE start_position
    /\ pc' = "optimize"
    /\ UNCHANGED <<barcode_positions, max_velocity, battery_capacity, current_pos,
                   unvisited, tour, nn_tour, ordered_waypoints, leg, complete_path,
                   current_time, battery_remaining, final_trajectory, reported>>
    /\ UNCHANGED plane_vars

----------------------------------------------------------------------------
\* optimize_waypoint_order_2opt.

\* positions[i], with positions = [np.array(wp['position']) for wp in waypoints]
Position(waypoints, i) == At(waypoints, i).position

\* np.linalg.norm(a - b)
Dist(a, b) == Norm(VSub(a, b))

\* A min that keeps the last element of least distance.
NearestIdx_LastMin(waypoints, unv, cur) ==
    LET key(k) == Dist(Position(waypoints, unv[k]), cur)
        last == CHOOSE k \in 1..Len(unv) :
                    /\ \A m \in 1..Len(unv) : key(k) <= key(m)
                    /\ \A m \in (k + 1)..Len(unv) : key(m) > key(k)
    IN  unv[last]

\* min(unvisited, key=distance to current): the first element of the list
\* among those of least distance.
NearestIdx(waypoints, unv, cur) ==
    LET key(k) == Dist(Position(waypoints, unv[k]), cur)
        first == CHOOSE k \in 1..Len(unv) :
                    /\ \A m \in 1..Len(unv) : key(k) <= key(m)
                    /\ \A m \in 1..(k - 1) : key(m) > key(k)
    IN  unv[first]

\* unvisited.remove(x): the list without its first x.
Remove(l, x) ==
    LET at == CHOOSE k \in 1..Len(l) : l[k] = x /\ \A m \in 1..(k - 1) : l[m] # x
    IN  [k \in 1..(Len(l) - 1) |-> IF k < at THEN l[k] ELSE l[k + 1]]

\* Lines 121-122.
DistCurrent(waypoints, t, i, j) ==
    Dist(Position(waypoints, At(t, i)), Position(waypoints, At(t, i + 1)))
    + Dist(Position(waypoints, At(t, j)), Position(waypoints, At(t, (j + 1) % Len(t))))

\* Lines 125-126.
DistNew(waypoints, t, i, j) ==
    Dist(Position(waypoints, At(t, i)), Position(waypoints, At(t, j)))
    + Dist(Position(waypoints, At(t, i + 1)), Position(waypoints, At(t, (j + 1) % Len(t))))

\* A test that also takes a reversal that changes nothing.
Improving_OrEqual(waypoints, t, i, j) ==
    DistNew(waypoints, t, i, j) <= DistCurrent(waypoints, t, i, j)

\* Line 128.
Improving(waypoints, t, i, j) ==
    DistNew(waypoints, t, i, j) < DistCurrent(waypoints, t, i, j)

\* The pairs (i, j) the two for loops run through.
Pairs(t) ==
    { ij \in (0..(Len(t) - 3)) \X (0..(Len(t) - 1)) : ij[2] >= ij[1] + 2 }

\* ij comes before kl in the loops' order.
Before(ij, kl) == ij[1] < kl[1] \/ (ij[1] = kl[1] /\ ij[2] < kl[2])

\* The first pair of a pass that improves, the loops breaking at it.
FirstImproving(waypoints, t) ==
    CHOOSE ij \in Pairs(t) :
        /\ Improving(waypoints, t, ij[1], ij[2])
        /\ \A kl \in Pairs(t) :
              Improving(waypoints, t, kl[1], kl[2]) => (kl = ij \/ Before(ij, kl))

\* A reversal that mirrors the slice one place too low: tour[i:j] reversed
\* into tour[i + 1:j + 1].
ReverseSegment_ShiftedSlice(t, i, j) ==
    [k \in 1..Len(t) |->
        IF k - 1 >= i + 1 /\ k - 1 <= j THEN At(t, i + j - (k - 1)) ELSE t[k]]

\* A reversal of the slice one place longer at its low end:
\* tour[i:j + 1] = reversed(tour[i:j + 1]).
ReverseSegment_FromI(t, i, j) ==
    [k \in 1..Len(t) |->
        IF k - 1 >= i /\ k - 1 <= j THEN At(t, i + j - (k - 1)) ELSE t[k]]

\* tour[i + 1:j + 1] = reversed(tour[i + 1:j + 1])
ReverseSegment(t, i, j) ==
    [k \in 1..Len(t) |->
        IF k - 1 >= i + 1 /\ k - 1 <= j THEN At(t, (i + 1) + j - (k - 1)) ELSE t[k]]

\* Lines 96-105.
OptimizeBegin ==
    /\ pc = "optimize"
    /\ target_waypoints # <<>>
    /\ current_pos' = start_position
    /\ unvisited' = Range(Len(target_waypoints))
    /\ tour' = <<>>
    /\ pc' = "nearest"
    /\ UNCHANGED <<barcode_positions, start_position, max_velocity, battery_capacity,
                   target_waypoints, nn_tour, ordered_waypoints, leg, complete_path,
                   current_time, battery_remaining, final_trajectory, reported>>
    /\ UNCHANGED plane_vars

\* [target_waypoints[i] for i in optimized_order]
Ordered(waypoints, order) == [k \in 1..Len(order) |-> At(waypoints, order[k])]

\* Lines 96-97, then line 43 of the caller.
OptimizeEmpty ==
    /\ pc = "optimize"
    /\ target_waypoints = <<>>
    /\ tour' = <<>>
    /\ ordered_waypoints' = Ordered(target_waypoints, <<>>)
    /\ pc' = "path"
    /\ UNCHANGED <<barcode_positions, start_position, max_velocity, battery_capacity,
                   target_waypoints, current_pos, unvisited, nn_tour, leg, complete_path,
                   current_time, battery_remaining, final_trajectory, reported>>
    /\ UNCHANGED plane_vars

\* One turn of the construction loop, lines 107-112.
NearestNeighbor ==
    /\ pc = "nearest"
    /\ unvisited # <<>>
    /\ LET nearest_idx == NearestIdx(target_waypoints, unvisited, current_pos)
       IN  /\ tour' = Append(tour, nearest_idx)
           /\ current_pos' = Position(target_waypoints, nearest_idx)
           /\ unvisited' = Remove(unvisited, nearest_idx)
    /\ UNCHANGED <<pc, barcode_positions, start_position, max_velocity, battery_capacity,
                   target_waypoints, nn_tour, ordered_waypoints, leg, complete_path,
                   current_time, battery_remaining, final_trajectory, reported>>
    /\ UNCHANGED plane_vars

\* The construction loop ends, lines 107 and 114-115.
ConstructionDone ==
    /\ pc = "nearest"
    /\ unvisited = <<>>
    /\ nn_tour' = tour
    /\ pc' = "twoopt"
    /\ UNCHANGED <<barcode_positions, start_position, max_velocity, battery_capacity,
                   target_waypoints, current_pos, unvisited, tour, ordered_waypoints,
                   leg, complete_path, current_time, battery_remaining,
                   final_trajectory, reported>>
    /\ UNCHANGED plane_vars

\* A pass of the improvement loop that finds an improving pair, lines 116-134.
TwoOptSwap ==
    /\ pc = "twoopt"
    /\ \E ij \in Pairs(tour) : Improving(target_waypoints, tour, ij[1], ij[2])
    /\ LET ij == FirstImproving(target_waypoints, tour)
       IN  tour' = ReverseSegment(tour, ij[1], ij[2])
    /\ UNCHANGED <<pc, barcode_positions, start_position, max_velocity, battery_capacity,
                   target_waypoints, current_pos, unvisited, nn_tour, ordered_waypoints,
                   leg, complete_path, current_time, battery_remaining,
                   final_trajectory, reported>>
    /\ UNCHANGED plane_vars

\* A pass that finds none: the loop ends and the tour is returned, lines
\* 116-136, then line 43 of the caller.
TwoOptReturn ==
    /\ pc = "twoopt"
    /\ ~ \E ij \in Pairs(tour) : Improving(target_waypoints, tour, ij[1], ij[2])
    /\ ordered_waypoints' = Ordered(target_waypoints, tour)
    /\ pc' = "path"
    /\ UNCHANGED <<barcode_positions, start_position, max_velocity, battery_capacity,
                   target_waypoints, current_pos, unvisited, tour, nn_tour, leg,
                   complete_path, current_time, battery_remaining, final_trajectory,
                   reported>>
    /\ UNCHANGED plane_vars

----------------------------------------------------------------------------
\* generate_complete_path.

\* The spacing of the intermediate points, the 2.0 of lines 177, 178 and 208.
InterpSpacing == 2

\* scan_time, line 212.
ScanTime == 3

\* 1 / battery_drain_rate: 0.1 percent per meter, line 157.
MetersPerPercent == 10

\* 1 / 0.05: the hovering drain is 0.05 percent per second, line 217.
HoverSecondsPerPercent == 20

\* num_points, line 178: int() truncates, and the distance is positive.
NumPoints(distance) == Max2(1, distance \div InterpSpacing)

\* range(1, num_points + 1): one turn too many.
IntermediateRange_Inclusive(distance) ==
    IF distance > InterpSpacing THEN 1..NumPoints(distance) ELSE {}

\* The values i of range(1, num_points), line 181, on a leg of this length;
\* none when the test of line 177 fails.
IntermediateRange(distance) ==
    IF distance > InterpSpacing THEN 1..(NumPoints(distance) - 1) ELSE {}

\* segment_distance, line 187, times Scale.
SegmentDistance(distance) == (distance * Scale) \div NumPoints(distance)

\* The final approach taken for the whole leg, its cut in segments forgotten.
FinalSegmentDistance_WholeLeg(distance) == distance * Scale

\* final_segment_distance, line 208, times Scale.
FinalSegmentDistance(distance) ==
    IF distance > InterpSpacing
    THEN (distance * Scale) \div NumPoints(distance)
    ELSE distance * Scale

\* t after i times t += u.
RECURSIVE AddTimes(_, _, _)
AddTimes(t, u, i) == IF i = 0 THEN t ELSE FAdd(AddTimes(t, u, i - 1), u)

\* The waypoint of the turn i of the inner loop, lines 182-205, on the leg
\* from cur to target that starts at time t with battery b.
IntermediateWaypoint(cur, target, i, t, b, v) ==
    LET direction == VSub(target, cur)
        distance == Norm(direction)
        segment_distance == SegmentDistance(distance)
        ratio == (i * Scale) \div NumPoints(distance)
    IN  [position |-> VAdd(VScale(cur, Scale), VScale(direction, ratio)),
         orientation |-> calculate_orientation(direction),
         waypoint_type |-> "intermediate",
         time |-> AddTimes(t, FDiv(segment_distance, v), i),
         battery |-> b - i * (segment_distance \div MetersPerPercent),
         palette_id |-> 0,
         barcode_position |-> None]

\* A target waypoint stamped on arrival, before the scan: line 213 moved
\* below the append.
TargetWaypointOf_BeforeScan(cur, wp, n_inter, t, b, v) ==
    LET distance == Norm(VSub(wp.position, cur))
        final == FinalSegmentDistance(distance)
        t_inter == AddTimes(t, FDiv(SegmentDistance(distance), v), n_inter)
        b_inter == b - n_inter * (SegmentDistance(distance) \div MetersPerPercent)
    IN  [position |-> VScale(wp.position, Scale),
         orientation |-> wp.orientation,
         waypoint_type |-> "target",
         time |-> FAdd(t_inter, FDiv(final, v)),
         battery |-> b_inter - (final \div MetersPerPercent)
                             - ((ScanTime * Scale) \div HoverSecondsPerPercent),
         palette_id |-> wp.palette_id,
         barcode_position |-> wp.barcode_position]

\* A target waypoint whose identifier is looked up under a key the waypoints
\* lack, so that wp.get falls back to its default.
TargetWaypointOf_UnknownId(cur, wp, n_inter, t, b, v) ==
    LET distance == Norm(VSub(wp.position, cur))
        final == FinalSegmentDistance(distance)
        t_inter == AddTimes(t, FDiv(SegmentDistance(distance), v), n_inter)
        b_inter == b - n_inter * (SegmentDistance(distance) \div MetersPerPercent)
    IN  [position |-> VScale(wp.position, Scale),
         orientation |-> wp.orientation,
         waypoint_type |-> "target",
         time |-> FAdd(FAdd(t_inter, FDiv(final, v)), Fin(ScanTime * Scale)),
         battery |-> b_inter - (final \div MetersPerPercent)
                             - ((ScanTime * Scale) \div HoverSecondsPerPercent),
         palette_id |-> 0,
         barcode_position |-> wp.barcode_position]

\* The waypoint appended at lines 207-228 for wp, after n_inter intermediate
\* waypoints.
TargetWaypointOf(cur, wp, n_inter, t, b, v) ==
    LET distance == Norm(VSub(wp.position, cur))
        final == FinalSegmentDistance(distance)
        t_inter == AddTimes(t, FDiv(SegmentDistance(distance), v), n_inter)
        b_inter == b - n_inter * (SegmentDistance(distance) \div MetersPerPercent)
    IN  [position |-> VScale(wp.position, Scale),
         orientation |-> wp.orientation,
         waypoint_type |-> "target",
         time |-> FAdd(FAdd(t_inter, FDiv(final, v)), Fin(ScanTime * Scale)),
         battery |-> b_inter - (final \div MetersPerPercent)
                             - ((ScanTime * Scale) \div HoverSecondsPerPercent),
         palette_id |-> wp.palette_id,
         barcode_position |-> wp.barcode_position]

\* What one turn of the outer loop appends, lines 169-228.
LegWaypoints(cur, wp, t, b, v) ==
    LET distance == Norm(VSub(wp.position, cur))
        n_inter == Cardinality(IntermediateRange(distance))
    IN  [i \in 1..(n_inter + 1) |->
           IF i <= n_inter
           THEN IntermediateWaypoint(cur, wp.position, i, t, b, v)
           ELSE TargetWaypointOf(cur, wp, n_inter, t, b, v)]

\* A start waypoint that takes the battery for full, whatever the capacity.
StartWaypoint_FullBattery(start, capacity) ==
    [position |-> VScale(start, Scale),
     orientation |-> ZeroOrientation,
     waypoint_type |-> "start",
     time |-> Fin(0),
     battery |-> 100 * Scale,
     palette_id |-> 0,
     barcode_position |-> None]

\* Lines 153-166.
StartWaypoint(start, capacity) ==
    [position |-> VScale(start, Scale),
     orientation |-> ZeroOrientation,
     waypoint_type |-> "start",
     time |-> Fin(0),
     battery |-> capacity * Scale,
     palette_id |-> 0,
     barcode_position |-> None]

PathBegin ==
    /\ pc = "path"
    /\ current_pos' = start_position
    /\ current_time' = Fin(0)
    /\ battery_remaining' = battery_capacity * Scale
    /\ complete_path' = <<StartWaypoint(start_position, battery_capacity)>>
    /\ leg' = 0
    /\ pc' = "legs"
    /\ UNCHANGED <<barcode_positions, start_position, max_velocity, battery_capacity,
                   target_waypoints, unvisited, tour, nn_tour, ordered_waypoints,
                   final_trajectory, reported>>
    /\ UNCHANGED plane_vars

\* One turn of the loop over ordered_waypoints, lines 169-231.
PathLeg ==
    /\ pc = "legs"
    /\ leg < Len(ordered_waypoints)
    /\ LET wp == At(ordered_waypoints, leg)
           emitted == LegWaypoints(current_pos, wp, current_time, battery_remaining,
                                   max_velocity)
       IN  /\ complete_path' = complete_path \o emitted
           /\ current_time' = emitted[Len(emitted)].time
           /\ battery_remaining' = emitted[Len(emitted)].battery
           /\ current_pos' = wp.position
    /\ leg' = leg + 1
    /\ UNCHANGED <<pc, barcode_positions, start_position, max_velocity, battery_capacity,
                   target_waypoints, unvisited, tour, nn_tour, ordered_waypoints,
                   final_trajectory, reported>>
    /\ UNCHANGED plane_vars

\* Line 233, then lines 46-53 of the caller: the path is returned as it is.
PathReturn ==
    /\ pc = "legs"
    /\ leg = Len(ordered_waypoints)
    /\ final_trajectory' = complete_path
    /\ pc' = "returned"
    /\ UNCHANGED <<barcode_positions, start_position, max_velocity, battery_capacity,
                   target_waypoints, current_pos, unvisited, tour, nn_tour,
                   ordered_waypoints, leg, complete_path, current_time,
                   battery_remaining, reported>>
    /\ UNCHANGED plane_vars

----------------------------------------------------------------------------

Next ==
    \/ CreateTargets
    \/ OptimizeBegin
    \/ OptimizeEmpty
    \/ NearestNeighbor
    \/ ConstructionDone
    \/ TwoOptSwap
    \/ TwoOptReturn
    \/ PathBegin
    \/ PathLeg
    \/ PathReturn

Spec == Init /\ [][Next]_vars

\* optimize_waypoint_order_2opt alone, called as line 42 calls it, from the
\* origin and on viewpoints drawn from OptimizerPoints; the barcodes, which
\* the optimizer does not read, lie at one offset. The call is sequential
\* code: a statement that can run does run.
OptimizerPoints == {<<0, 0, 0>>, <<4, 0, 0>>, <<4, 3, 0>>, <<8, 0, 0>>}

InitOptimizer ==
    /\ Init
    /\ max_velocity = 2
    /\ battery_capacity = 100
    /\ start_position = <<0, 0, 0>>
    /\ \A k \in 1..Len(barcode_positions) :
          /\ barcode_positions[k].drone_waypoint \in OptimizerPoints
          /\ barcode_positions[k].barcode_center
                = VAdd(barcode_positions[k].drone_waypoint, <<0, 0, -2>>)

NextOptimizer ==
    \/ CreateTargets
    \/ OptimizeBegin
    \/ OptimizeEmpty
    \/ NearestNeighbor
    \/ ConstructionDone
    \/ TwoOptSwap
    \/ TwoOptReturn

SpecOptimizer ==
    InitOptimizer /\ [][NextOptimizer]_vars /\ WF_vars(TwoOptSwap \/ TwoOptReturn)

----------------------------------------------------------------------------
\* fit_plane of post_est_3d.py, on its own: nothing of the planner calls it.

\* Coordinates of the points handed to fit_plane.
PlaneGrid == (0..1) \X (0..1) \X (0..1)

\* The unit vectors along the axes: the normals the model can name exactly.
AxisNormals ==
    { <<1, 0, 0>>, <<-1, 0, 0>>, <<0, 1, 0>>, <<0, -1, 0>>, <<0, 0, 1>>, <<0, 0, -1>> }

RECURSIVE VSum(_)
VSum(ps) == IF ps = <<>> THEN <<0, 0, 0>> ELSE VAdd(ps[1], VSum(Tail(ps)))

\* centered = points - centroid, each row times Len(ps): the centroid is
\* VSum(ps) / Len(ps).
Centered(ps) == [i \in 1..Len(ps) |-> VSub(VScale(ps[i], Len(ps)), VSum(ps))]

\* The unit vectors u with centered . u = 0.  When the points lie in a plane
\* across an axis, the singular value of vh[-1] is 0 and vh[-1] is such a u;
\* the sign, and for points on a line or a single point the vector itself,
\* are the decomposition's choice.
NullNormals(ps) ==
    { u \in AxisNormals : \A i \in 1..Len(ps) : Dot(Centered(ps)[i], u) = 0 }

\* A call fit_plane(points) with points in a plane across an axis.
InitPlane ==
    /\ PlannerIdle
    /\ \E n \in 1..MaxPlanePoints : \E ps \in [1..n -> PlaneGrid] :
          /\ NullNormals(ps) # {}
          /\ points = ps
    /\ plane_pc = "called"
    /\ plane = None

\* Lines 45-49: the mean, the decomposition, and the return of the pair; no
\* line of it tests the number of points.
FitPlane ==
    /\ plane_pc = "called"
    /\ \E normal \in NullNormals(points) :
          plane' = [normal |-> normal,
                    centroid |-> [sum |-> VSum(points), count |-> Len(points)]]
    /\ plane_pc' = "returned"
    /\ UNCHANGED points
    /\ UNCHANGED planner_vars

NextPlane == FitPlane

SpecPlane == InitPlane /\ [][NextPlane]_vars

----------------------------------------------------------------------------
\* Properties of the tour.

\* The run is past the construction loop of the optimizer.
Constructed == pc \in {"twoopt", "path", "legs", "returned"} /\ target_waypoints # <<>>

\* t holds each of the indices 0..n-1 exactly once.
IsPermutation(t, n) ==
    /\ Len(t) = n
    /\ \A i \in 0..(n - 1) : Cardinality({ k \in 1..Len(t) : t[k] = i }) = 1

\* The length of the open path start -> t[0] -> ... -> t[n-1].
RECURSIVE OpenLength(_, _, _)
OpenLength(from, waypoints, t) ==
    IF t = <<>> THEN 0
    ELSE Dist(from, Position(waypoints, t[1]))
         + OpenLength(Position(waypoints, t[1]), waypoints, Tail(t))

\* C1: the tour is a permutation of the indices 0..n-1 of the viewpoints, as
\* the nearest-neighbor construction leaves it and after every reversal the
\* 2-opt loop applies, up to the tour that is returned.
C1_TourIsPermutation ==
    Constructed =>
        /\ IsPermutation(nn_tour, Len(target_waypoints))
        /\ IsPermutation(tour, Len(target_waypoints))

\* A run of four viewpoints in which the 2-opt loop has reversed a segment.
C1_Witness ==
    /\ pc = "returned"
    /\ Len(target_waypoints) = 4
    /\ tour # nn_tour

\* C2: the open path of the returned tour is no longer than the open path of
\* the tour the nearest-neighbor construction built.
C2_TwoOptNotLonger ==
    pc = "returned" =>
        OpenLength(start_position, target_waypoints, tour)
            <= OpenLength(start_position, target_waypoints, nn_tour)

----------------------------------------------------------------------------
\* Properties of the trajectory.

IsTarget(w) == w.waypoint_type = "target"

\* The palette_id of each waypoint of a list.
Ids(ws) == [k \in 1..Len(ws) |-> ws[k].palette_id]

\* The length of the leg that ends at ordered_waypoints[k] (1-based).
LegFrom(k) == IF k = 1 THEN start_position ELSE ordered_waypoints[k - 1].position

LegLength(k) == Dist(ordered_waypoints[k].position, LegFrom(k))

\* The sum of the leg lengths start -> v1 -> ... -> vn.
RECURSIVE LegSum(_)
LegSum(k) == IF k = 0 THEN 0 ELSE LegSum(k - 1) + LegLength(k)

\* Where the k-th target waypoint stands in the path; the start for k = 0.
TargetIndex(path, k) ==
    IF k = 0 THEN 1
    ELSE CHOOSE m \in 1..Len(path) :
            /\ IsTarget(path[m])
            /\ Cardinality({ q \in 1..m : IsTarget(path[q]) }) = k

\* C3: the trajectory returned for n >= 1 viewpoints begins with its only
\* 'start' waypoint, holds exactly n 'target' waypoints whose identifiers come
\* in the order of the viewpoints given to generate_complete_path, holds
\* nothing but 'intermediate' waypoints besides, and ends with a 'target'.
C3_TrajectoryShape ==
    (pc = "returned" /\ Len(ordered_waypoints) >= 1) =>
        /\ final_trajectory[1].waypoint_type = "start"
        /\ \A m \in 2..Len(final_trajectory) :
              final_trajectory[m].waypoint_type \in {"intermediate", "target"}
        /\ Ids(SelectSeq(final_trajectory, IsTarget)) = Ids(ordered_waypoints)
        /\ final_trajectory[Len(final_trajectory)].waypoint_type = "target"

\* A returned trajectory of four targets, reordered by the optimizer, with
\* intermediate waypoints on some leg.
C3_Witness ==
    /\ pc = "returned"
    /\ Len(ordered_waypoints) = 4
    /\ Ids(ordered_waypoints) # <<1, 2, 3, 4>>
    /\ \E m \in 1..Len(final_trajectory) :
          final_trajectory[m].waypoint_type = "intermediate"

\* C4: with max_velocity > 0, along the path the elapsed time strictly
\* increases and the battery never increases from each waypoint to the next,
\* legs of length zero included.
C4_TimeAndBatteryMonotone ==
    (pc \in {"legs", "returned"} /\ max_velocity > 0) =>
        \A m \in 1..(Len(complete_path) - 1) :
            /\ IsFin(complete_path[m].time)
            /\ IsFin(complete_path[m + 1].time)
            /\ complete_path[m].time[2] < complete_path[m + 1].time[2]
            /\ complete_path[m + 1].battery <= complete_path[m].battery

\* A returned trajectory, max_velocity > 0, with a leg of length zero after
\* the first and a leg with intermediate waypoints.
C4_Witness ==
    /\ pc = "returned"
    /\ max_velocity > 0
    /\ \E k \in 2..Len(ordered_waypoints) : LegLength(k) = 0
    /\ \E m \in 1..Len(final_trajectory) :
          final_trajectory[m].waypoint_type = "intermediate"

\* C5: with max_velocity v > 0, the elapsed time of the last waypoint of the
\* returned trajectory is (sum of the leg lengths) / v + 3 * n seconds.
C5_FinalTime ==
    (pc = "returned" /\ max_velocity > 0) =>
        final_trajectory[Len(final_trajectory)].time
            = Fin((LegSum(Len(ordered_waypoints)) * Scale) \div max_velocity
                  + 3 * Len(ordered_waypoints) * Scale)

\* A returned trajectory, max_velocity 2, with a leg of length 5 (cut in two
\* segments of 2.5) and a leg of length 10 (cut in five).
C5_Witness ==
    /\ pc = "returned"
    /\ max_velocity = 2
    /\ \E k \in 1..Len(ordered_waypoints) : LegLength(k) = 5
    /\ \E k \in 1..Len(ordered_waypoints) : LegLength(k) = 10

\* C6: with no viewpoint the optimizer returns the empty tour and the
\* trajectory is the 'start' waypoint alone, at time 0 with the battery at the
\* given capacity; with one viewpoint the optimizer returns the tour [0] and
\* the 2-opt loop applies no reversal.
C6_EdgeCases ==
    /\ (pc = "returned" /\ Len(barcode_positions) = 0) =>
          /\ tour = <<>>
          /\ Len(final_trajectory) = 1
          /\ final_trajectory[1].waypoint_type = "start"
          /\ final_trajectory[1].time = Fin(0)
          /\ final_trajectory[1].battery = battery_capacity * Scale
    /\ (pc = "twoopt" /\ Len(barcode_positions) = 1) =>
          /\ tour = <<0>>
          /\ ~ ENABLED TwoOptSwap
    /\ (pc \in {"path", "legs", "returned"} /\ Len(barcode_positions) = 1) =>
          tour = <<0>>

\* A run without viewpoints has returned, its battery capacity not 100.
C6_Witness ==
    /\ pc = "returned"
    /\ Len(barcode_positions) = 0
    /\ battery_capacity = 1

\* A run with one viewpoint has returned.
C6_WitnessOne ==
    /\ pc = "returned"
    /\ Len(barcode_positions) = 1

\* C7: when the battery goes negative during the expansion (of a run whose
\* velocity and capacity are positive), the trajectory is still returned in
\* full, negative battery values on its waypoints, and the exhaustion is
\* reported to the caller with it.
C7_ExhaustionSurfaced ==
    (/\ pc = "returned"
     /\ max_velocity > 0
     /\ battery_capacity > 0
     /\ \E m \in 1..Len(final_trajectory) : final_trajectory[m].battery < 0) =>
        /\ Ids(SelectSeq(final_trajectory, IsTarget)) = Ids(ordered_waypoints)
        /\ "BatteryExhaustionWarning" \in reported

\* C8: a run with max_velocity <= 0 or battery_capacity <= 0 fails with an
\* InvalidConfigurationError and returns no trajectory.
C8_InvalidConfigurationFails ==
    (max_velocity <= 0 \/ battery_capacity <= 0) =>
        /\ pc # "returned"
        /\ final_trajectory = None

\* C9: fit_plane on one or two points reports an InsufficientPointsError and
\* returns no (normal, centroid) pair.
C9_FewPointsRejected ==
    (plane_pc # "idle" /\ Len(points) < 3) =>
        /\ plane_pc # "returned"
        /\ plane = None

\* The number of waypoints between the target before leg k (the start for
\* k = 1) and the target of leg k.
IntermediateCount(path, k) == TargetIndex(path, k) - TargetIndex(path, k - 1) - 1

\* C10 as stated: a leg of length d > 2 has floor(d / 2) intermediate
\* waypoints before its target, and a leg of length d <= 2 has none.
C10_FloorCount ==
    pc = "returned" =>
        \A k \in 1..Len(ordered_waypoints) :
            IntermediateCount(final_trajectory, k)
                = IF LegLength(k) > 2 THEN LegLength(k) \div 2 ELSE 0

\* C10 amended: a leg of length d > 2 has floor(d / 2) - 1 intermediate
\* waypoints before its target, the i-th at the fraction i / floor(d / 2) of
\* the segment, and a leg of length d <= 2 has none.
C10_FloorCountLessOne ==
    pc = "returned" =>
        \A k \in 1..Len(ordered_waypoints) :
            LET d == LegLength(k)
                first == TargetIndex(final_trajectory, k - 1)
                direction == VSub(ordered_waypoints[k].position, LegFrom(k))
            IN  /\ IntermediateCount(final_trajectory, k)
                      = IF d > 2 THEN (d \div 2) - 1 ELSE 0
                /\ \A i \in 1..IntermediateCount(final_trajectory, k) :
                      /\ final_trajectory[first + i].waypoint_type = "intermediate"
                      /\ final_trajectory[first + i].position
                            = VAdd(VScale(LegFrom(k), Scale),
                                   VScale(direction, (i * Scale) \div (d \div 2)))

\* A returned trajectory with a leg of length 3 (longer than 2, no
\* intermediate waypoint), a leg of length 8 (three of them) and a leg of
\* length at most 2.
C10_Witness ==
    /\ pc = "returned"
    /\ \E k \in 1..Len(ordered_waypoints) :
          LegLength(k) = 3 /\ IntermediateCount(final_trajectory, k) = 0
    /\ \E k \in 1..Len(ordered_waypoints) :
          LegLength(k) = 8 /\ IntermediateCount(final_trajectory, k) = 3
    /\ \E k \in 1..Len(ordered_waypoints) : LegLength(k) <= 2

----------------------------------------------------------------------------
\* Properties of the 2-opt loop and of the construction.

\* C11: in a comparison with j the last tour index, the edge from the last
\* tour element back to the first weighs nothing: the reversal of
\* tour[i+1..j] is taken exactly when the edge it adds to the open path,
\* tour[i] -> tour[j], is shorter than the edge it removes, tour[i] ->
\* tour[i+1].
C11_WrapAroundExcluded ==
    pc = "twoopt" =>
        \A i \in 0..(Len(tour) - 3) :
            LET j == Len(tour) - 1
                a == Position(target_waypoints, At(tour, i))
                b == Position(target_waypoints, At(tour, i + 1))
                c == Position(target_waypoints, At(tour, j))
            IN  Improving(target_waypoints, tour, i, j) <=> (Dist(a, c) < Dist(a, b))

\* The optimizer has returned its tour to the caller.
Returned == pc \in {"path", "legs", "returned"}

\* No pair the loops test satisfies the test of line 128.
LocalOptimum(waypoints, t) ==
    \A i \in 0..(Len(t) - 3) : \A j \in (i + 2)..(Len(t) - 1) :
        ~ (DistNew(waypoints, t, i, j) < DistCurrent(waypoints, t, i, j))

\* C12: the improvement loop ends for every input, and the tour it returns
\* is a local optimum of the loop's own test: no pair (i, j) with
\* i + 2 <= j has dist_new < dist_current.
C12_TerminatesAtLocalOptimum ==
    /\ (pc = "twoopt") ~> (pc = "path")
    /\ [](Returned => LocalOptimum(target_waypoints, tour))

\* The loop has reversed a segment of a tour of three or more and has ended.
C12_Witness ==
    /\ pc = "path"
    /\ Len(tour) >= 3
    /\ tour # nn_tour
    /\ LocalOptimum(target_waypoints, tour)

\* The tour the construction loop has built so far, or has built.
BuiltTour == IF pc = "nearest" THEN tour ELSE nn_tour

\* The position the k-th choice of the construction loop was made from.
ChosenFrom(k) ==
    IF k = 1 THEN start_position
    ELSE Position(target_waypoints, BuiltTour[k - 1])

\* The viewpoints still unvisited at the k-th choice, the chosen one aside.
Rivals(k) ==
    { u \in 0..(Len(target_waypoints) - 1) :
        /\ u # BuiltTour[k]
        /\ \A m \in 1..(k - 1) : BuiltTour[m] # u }

\* u is as near to the place of the k-th choice as the viewpoint chosen.
Tied(k, u) ==
    Dist(Position(target_waypoints, u), ChosenFrom(k))
        = Dist(Position(target_waypoints, BuiltTour[k]), ChosenFrom(k))

\* C13: every choice of the nearest-neighbor construction takes a viewpoint
\* of least distance among the unvisited ones and, among those tied at that
\* distance, the one of lowest input index; the tour built is therefore
\* fixed by the start position and the viewpoint list.
C13_TieByInputIndex ==
    (pc = "nearest" \/ Constructed) =>
        \A k \in 1..Len(BuiltTour) : \A u \in Rivals(k) :
            \/ Dist(Position(target_waypoints, u), ChosenFrom(k))
                  > Dist(Position(target_waypoints, BuiltTour[k]), ChosenFrom(k))
            \/ Tied(k, u) /\ u > BuiltTour[k]

\* The construction has ended and one of its choices was between two
\* viewpoints at different places and the same least distance.
C13_Witness ==
    /\ pc = "twoopt"
    /\ \E k \in 1..Len(BuiltTour) : \E u \in Rivals(k) :
          /\ Tied(k, u)
          /\ Position(target_waypoints, u) # Position(target_waypoints, BuiltTour[k])

----------------------------------------------------------------------------
\* Orientation along a leg.

\* The orientation of the displacement of the leg that ends at
\* ordered_waypoints[k].
LegOrientation(k) ==
    calculate_orientation(VSub(ordered_waypoints[k].position, LegFrom(k)))

\* The vector from the k-th viewpoint to its barcode.
ViewVector(k) ==
    VSub(ordered_waypoints[k].barcode_position, ordered_waypoints[k].position)

\* C14 as stated: every waypoint of a leg, the target waypoint included,
\* carries the orientation of the leg's displacement, with roll 0.
C14_LegOrientationEverywhere ==
    pc = "returned" =>
        \A k \in 1..Len(ordered_waypoints) :
            \A m \in (TargetIndex(final_trajectory, k - 1) + 1)
                        ..TargetIndex(final_trajectory, k) :
                /\ final_trajectory[m].orientation = LegOrientation(k)
                /\ final_trajectory[m].orientation.roll = 0

\* C14 amended: the intermediate waypoints of a leg carry the orientation of
\* the leg's displacement; the leg's target waypoint carries the orientation
\* of the vector from the viewpoint to its barcode, which is (0, 0, 0) when
\* that vector is zero; the start waypoint carries (0, 0, 0); roll is 0 at
\* every waypoint.
C14_TargetFacesBarcode ==
    pc = "returned" =>
        /\ final_trajectory[1].orientation = ZeroOrientation
        /\ \A m \in 1..Len(final_trajectory) : final_trajectory[m].orientation.roll = 0
        /\ \A k \in 1..Len(ordered_waypoints) :
              LET last == TargetIndex(final_trajectory, k)
              IN  /\ \A m \in (TargetIndex(final_trajectory, k - 1) + 1)..(last - 1) :
                        final_trajectory[m].orientation = LegOrientation(k)
                  /\ final_trajectory[last].orientation
                        = IF ViewVector(k) = <<0, 0, 0>>
                          THEN ZeroOrientation
                          ELSE [roll |-> 0, facing |-> Direction(ViewVector(k))]

\* A returned trajectory with a leg that has intermediate waypoints and whose
\* target waypoint faces its barcode, in another direction than the leg's.
C14_Witness ==
    /\ pc = "returned"
    /\ \E k \in 1..Len(ordered_waypoints) :
          /\ IntermediateCount(final_trajectory, k) >= 1
          /\ ViewVector(k) # <<0, 0, 0>>
          /\ final_trajectory[TargetIndex(final_trajectory, k)].orientation
                # LegOrientation(k)

\* A returned trajectory with a viewpoint that lies on its barcode.
C14_WitnessZeroVector ==
    /\ pc = "returned"
    /\ \E k \in 1..Len(ordered_waypoints) :
          /\ IntermediateCount(final_trajectory, k) >= 1
          /\ ViewVector(k) = <<0, 0, 0>>
          /\ LegOrientation(k) # ZeroOrientation

----------------------------------------------------------------------------
\* The first viewpoint of the tour.

\* C15: the improvement loop leaves the first tour element where the
\* construction put it, so the first viewpoint of the tour, at every pass
\* and on return, is a viewpoint of least distance from the start position,
\* and the one of lowest input index among those.
C15_FirstViewpointFixed ==
    Constructed =>
        /\ tour[1] = nn_tour[1]
        /\ \A u \in 0..(Len(target_waypoints) - 1) :
              LET du == Dist(Position(target_waypoints, u), start_position)
                  d1 == Dist(Position(target_waypoints, tour[1]), start_position)
              IN  u = tour[1] \/ du > d1 \/ (du = d1 /\ u > tour[1])

\* The tour is returned after a reversal that began right behind its first
\* element, the first viewpoint lying away from the start position.
C15_Witness ==
    /\ pc = "path"
    /\ Len(tour) >= 4
    /\ tour[2] # nn_tour[2]
    /\ Dist(Position(target_waypoints, tour[1]), start_position) > 0

====
